---- MODULE Spec2Model ----
(***************************************************************************)
(* Keypad backlight module of mce (src/modules/keypad.c).                  *)
(*                                                                         *)
(* The module is a set of datapipe output triggers, one glib timeout       *)
(* callback and one D-Bus method handler, all run from the single main     *)
(* loop thread: each handler runs to completion, so each is one action.    *)
(* A handler's nested calls (execute_datapipe on key_backlight_pipe runs   *)
(* set_backlight_brightness synchronously) are part of the same action.    *)
(*                                                                         *)
(* The program state is kept in the variables below; the C functions are   *)
(* operators from a state record to a state record (see Cur and Commit).   *)
(* `event' is the event handled last and `log' its trace: in program       *)
(* order, the calls of the policy functions, the pushes into               *)
(* key_backlight_pipe, the hardware file writes, the glib timer            *)
(* registrations and removals and the D-Bus reply.  The trace is started   *)
(* anew when the next event starts.                                        *)
(***************************************************************************)
EXTENDS Integers, Sequences, FiniteSets, TLC

(***************************************************************************)
(* Program constants.  keypad.h and the headers of the daemon set them;    *)
(* keypad.c uses them at the places named in the map.                      *)
(***************************************************************************)
DEFAULT_KEY_BACKLIGHT_LEVEL == 255
DEFAULT_KEY_BACKLIGHT_FADE_IN_TIME == 250
DEFAULT_KEY_BACKLIGHT_FADE_OUT_TIME == 1000
MAXIMUM_LYSTI_BACKLIGHT_LED_CURRENT == 50

(***************************************************************************)
(* Bounds of the model.                                                    *)
(***************************************************************************)
\* glib source ids available to g_timeout_add_seconds
MaxSourceId == 2
\* external level requests use -1, 0, DEFAULT_KEY_BACKLIGHT_LEVEL and the
\* MaxLevelIdx levels 128, 64, .. between them
MaxLevelIdx == 1

RequestLevels ==
    {-1, 0, DEFAULT_KEY_BACKLIGHT_LEVEL}
        \cup {(DEFAULT_KEY_BACKLIGHT_LEVEL \div (2 ^ i)) + 1 :
                  i \in 1..MaxLevelIdx}

\* get_product_id(): the products the switches of keypad.c name, and one
\* product without keyboard (the default: branch)
LystiProducts == {"RM690", "RM680", "RX51"}
N810Products == {"RX48", "RX44"}
ProductIds == {"RX51", "RX44", "RX34"}

\* cover_state_t values delivered on keyboard_slide_pipe
CoverStates == {"COVER_CLOSED", "COVER_OPEN"}
\* system_state_t values delivered on system_state_pipe
SystemStates == {"MCE_STATE_USER", "MCE_STATE_ACTDEAD"}
\* alarm_ui_state_t values held by alarm_ui_state_pipe
AlarmUiStates ==
    {"MCE_ALARM_UI_OFF_INT32", "MCE_ALARM_UI_VISIBLE_INT32",
     "MCE_ALARM_UI_RINGING_INT32"}
\* display_state_t values delivered on display_state_pipe
DisplayStates ==
    {"MCE_DISPLAY_UNDEF", "MCE_DISPLAY_OFF", "MCE_DISPLAY_LPM_OFF",
     "MCE_DISPLAY_LPM_ON", "MCE_DISPLAY_DIM", "MCE_DISPLAY_ON"}
\* values of the fade time keys in the configuration file: the fade in
\* time 300 is below 1000 and no multiple of 125; the fade out time 1100
\* does not pass the check of g_module_check_init
ConfFadeInTimes == {0, 300}
ConfFadeOutTimes == {1100}

VARIABLES
    product,                      \* get_product_id()
    key_backlight_fade_in_time,   \* keypad.c:92
    key_backlight_fade_out_time,  \* keypad.c:95
    key_backlight_timeout_cb_id,  \* keypad.c:86
    timers,                       \* glib: ids of the registered timeouts
    key_backlight_is_enabled,     \* keypad.c:98
    cached_brightness,            \* keypad.c:382 (static)
    old_brightness,               \* keypad.c:248 (static)
    pattern,                      \* keypad.c:246 (static)
    old_display_state,            \* keypad.c:635 (static)
    key_backlight_pipe,           \* cached value of key_backlight_pipe
    keyboard_slide_pipe,          \* cached value of keyboard_slide_pipe
    system_state_pipe,            \* cached value of system_state_pipe
    alarm_ui_state_pipe,          \* cached value of alarm_ui_state_pipe
    tklock_submode,               \* mce_get_submode_int32() & MCE_TKLOCK_SUBMODE
    loaded,                       \* triggers subscribed (init .. unload)
    quiescent,                    \* the daemon receives no further event
    event,                        \* the event handled last
    log                           \* operations of the event handled last

vars ==
    <<product, key_backlight_fade_in_time, key_backlight_fade_out_time,
      key_backlight_timeout_cb_id, timers, key_backlight_is_enabled,
      cached_brightness, old_brightness, pattern, old_display_state,
      key_backlight_pipe, keyboard_slide_pipe, system_state_pipe,
      alarm_ui_state_pipe, tklock_submode, loaded, quiescent, event, log>>

(***************************************************************************)
(* Helpers                                                                 *)
(***************************************************************************)
ABS(x) == IF x < 0 THEN -x ELSE x

\* F applied to the value of v: v is evaluated once, whatever the number of
\* places F uses it in
With(v, F(_)) == CHOOSE r \in {F(x) : x \in {v}} : TRUE

(***************************************************************************)
(* guint arithmetic.  A guint has 32 bits; it is held as its four bytes,   *)
(* least significant first, so that no intermediate value leaves the       *)
(* range of the integers of the model checker.                             *)
(***************************************************************************)
\* conversion of a gint x to guint (x + 2^32 when x is negative)
GuintBytes(x) ==
    LET y == IF x < 0 THEN (x + 2147483647) + 1 ELSE x
    IN  <<y % 256, (y \div 256) % 256, (y \div 65536) % 256,
          ((y \div 16777216) % 256) + (IF x < 0 THEN 128 ELSE 0)>>

\* the guint product b * m, modulo 2^32 (m < 2^16)
GuintMul(b0, m) ==
    With(b0, LAMBDA b :
        LET p1 == b[1] * m
            p2 == b[2] * m + (p1 \div 256)
            p3 == b[3] * m + (p2 \div 256)
            p4 == b[4] * m + (p3 \div 256)
        IN  <<p1 % 256, p2 % 256, p3 % 256, p4 % 256>>)

\* the quotient b / d of a guint by a divisor 256 <= d < 2^22
GuintDiv(b0, d) ==
    With(b0, LAMBDA b :
        LET r4 == b[4]
            r3 == r4 * 256 + b[3]
            c2 == (r3 % d) * 256 + b[2]
            c1 == (c2 % d) * 256 + b[1]
        IN  ((r3 \div d) * 256 + (c2 \div d)) * 256 + (c1 \div d))

\* static gchar convert[] = "0123456789abcdef"
convert ==
    <<"0", "1", "2", "3", "4", "5", "6", "7",
      "8", "9", "a", "b", "c", "d", "e", "f">>

\* convert[(v & 0xf0) >> 4]
HighNibble(v) == convert[((v % 256) \div 16) + 1]
\* convert[v & 0xf]
LowNibble(v) == convert[(v % 16) + 1]

\* static gchar pattern[] = "9d80" "4000" "0000" "c000"
InitPattern ==
    <<"9", "d", "8", "0", "4", "0", "0", "0",
      "0", "0", "0", "0", "c", "0", "0", "0">>

\* the state the C functions work on
Cur ==
    [product |-> product,
     fade_in |-> key_backlight_fade_in_time,
     fade_out |-> key_backlight_fade_out_time,
     cb_id |-> key_backlight_timeout_cb_id,
     timers |-> timers,
     enabled |-> key_backlight_is_enabled,
     cached |-> cached_brightness,
     old_brightness |-> old_brightness,
     pattern |-> pattern,
     old_display_state |-> old_display_state,
     pipe |-> key_backlight_pipe,
     slide |-> keyboard_slide_pipe,
     system |-> system_state_pipe,
     alarm |-> alarm_ui_state_pipe,
     tklock |-> tklock_submode,
     loaded |-> loaded,
     log |-> log]

\* the variables take the fields of the state s a handler returns
Commit(s) ==
    \E r \in {s} :
        /\ product' = r.product
        /\ key_backlight_fade_in_time' = r.fade_in
        /\ key_backlight_fade_out_time' = r.fade_out
        /\ key_backlight_timeout_cb_id' = r.cb_id
        /\ timers' = r.timers
        /\ key_backlight_is_enabled' = r.enabled
        /\ cached_brightness' = r.cached
        /\ old_brightness' = r.old_brightness
        /\ pattern' = r.pattern
        /\ old_display_state' = r.old_display_state
        /\ key_backlight_pipe' = r.pipe
        /\ keyboard_slide_pipe' = r.slide
        /\ system_state_pipe' = r.system
        /\ alarm_ui_state_pipe' = r.alarm
        /\ tklock_submode' = r.tklock
        /\ loaded' = r.loaded
        /\ log' = r.log
        /\ UNCHANGED quiescent

\* an event starts: the trace of the previous one is dropped
Begin == [Cur EXCEPT !.log = <<>>]

\* the event handled is recorded
Handle(name, arg) == event' = [name |-> name, arg |-> arg]

Logged(s, e) == [s EXCEPT !.log = Append(@, e)]

\* a policy function is entered
Called(s, fn) == Logged(s, [op |-> "call", path |-> fn, value |-> 0])

\* mce_write_string_to_file / mce_write_number_string_to_file
Write(s, path, value) ==
    Logged(s, [op |-> "write", path |-> path, value |-> value])

RECURSIVE WriteAll(_, _, _)
WriteAll(s, paths, value) ==
    IF paths = <<>> THEN s
    ELSE WriteAll(Write(s, Head(paths), value), Tail(paths), value)

(***************************************************************************)
(* glib timeouts                                                           *)
(***************************************************************************)
\* the id g_timeout_add_seconds returns: a non-zero id no registered source
\* has (the smallest one; the last one when the ids have run out)
FreshSourceId(registered) ==
    IF \E i \in 1..MaxSourceId : i \notin registered
    THEN CHOOSE i \in 1..MaxSourceId :
            /\ i \notin registered
            /\ \A j \in 1..MaxSourceId : j \notin registered => i <= j
    ELSE MaxSourceId

g_source_remove(s, id) ==
    Logged([s EXCEPT !.timers = @ \ {id}],
           [op |-> "timer_remove", path |-> "glib", value |-> id])

g_timeout_add_seconds(s0) ==
    With(s0, LAMBDA s :
        LET id == FreshSourceId(s.timers)
        IN  Logged([s EXCEPT !.timers = @ \cup {id}, !.cb_id = id],
                   [op |-> "timer_add", path |-> "glib", value |-> id]))

(***************************************************************************)
(* Hardware backends                                                       *)
(***************************************************************************)
\* setup_key_backlight: key_backlight_mask of the product
key_backlight_mask(p) ==
    CASE p \in {"RM690", "RM680"} -> "MCE_LYSTI_KB_BACKLIGHT_MASK_RM680"
      [] p = "RX51" -> "MCE_LYSTI_KB_BACKLIGHT_MASK_RX51"
      [] OTHER -> "0"

led_brightness_paths ==
    <<"led_brightness_kb0", "led_brightness_kb1", "led_brightness_kb2",
      "led_brightness_kb3", "led_brightness_kb4", "led_brightness_kb5">>

led_current_paths ==
    <<"led_current_kb0", "led_current_kb1", "led_current_kb2",
      "led_current_kb3", "led_current_kb4", "led_current_kb5">>

\* stepspeed of the fade branch before the sanity check:
\* (((fadetime * 1000) / ABS(steps)) / 0.49) / 1000 stored in a gint.
\* fadetime * 1000 is a guint product and the first division a guint
\* division; the other two are divisions of doubles and the store
\* truncates, so the value is that quotient divided by 490, rounded down:
\* the guint product divided by ABS(steps) * 490
StepSpeedRaw(fadetime, steps) ==
    GuintDiv(GuintMul(GuintBytes(fadetime), 1000), ABS(steps) * 490)

\* mutant: the sanity check has no upper limit
StepSpeedNoUpperLimit(fadetime, steps) ==
    With(IF steps = 0 THEN 1 ELSE StepSpeedRaw(fadetime, steps),
         LAMBDA raw :
        LET clamped == IF raw < 1 THEN 1 ELSE raw
        IN  clamped * 2 + (IF steps > 0 THEN 0 ELSE 1))

\* the sanity check and the direction bit
StepSpeed(fadetime, steps) ==
    With(IF steps = 0 THEN 1 ELSE StepSpeedRaw(fadetime, steps),
         LAMBDA raw :
        LET clamped == IF raw < 1 THEN 1 ELSE IF raw > 31 THEN 31 ELSE raw
        IN  clamped * 2 + (IF steps > 0 THEN 0 ELSE 1))

\* mutant: the fade starts from the new level, not from the old one
LystiProgramStartsAtNew(old, fadetime, brightness) ==
    LET steps == brightness - old
    IN  IF fadetime = 0 \/ steps = 0
        THEN <<HighNibble(brightness), LowNibble(brightness),
               "0", "0", "0", "0">>
        ELSE With(StepSpeed(fadetime, steps), LAMBDA stepspeed :
                 <<HighNibble(brightness), LowNibble(brightness),
                   HighNibble(stepspeed), LowNibble(stepspeed),
                   HighNibble(ABS(steps)), LowNibble(ABS(steps))>>)

\* the six characters pattern[6..11] the call stores
LystiProgram(old, fadetime, brightness) ==
    LET steps == brightness - old
    IN  IF fadetime = 0 \/ steps = 0
        THEN <<HighNibble(brightness), LowNibble(brightness),
               "0", "0", "0", "0">>
        ELSE With(StepSpeed(fadetime, steps), LAMBDA stepspeed :
                 <<HighNibble(old), LowNibble(old),
                   HighNibble(stepspeed), LowNibble(stepspeed),
                   HighNibble(ABS(steps)), LowNibble(ABS(steps))>>)

\* mutant: the load mode is written after the program, right before the
\* run mode
LystiWritesLoadModeLate(s0) ==
    With(s0, LAMBDA s :
        LET s1 == Write(s, "engine3_mode", "MCE_LED_DISABLED_MODE")
            s2 == WriteAll(s1, led_brightness_paths, 0)
            s3 == WriteAll(s2, led_current_paths,
                           MAXIMUM_LYSTI_BACKLIGHT_LED_CURRENT)
            s4 == Write(s3, "engine3_leds", key_backlight_mask(s.product))
            s5 == Write(s4, "engine3_load", s.pattern)
            s6 == Write(s5, "engine3_mode", "MCE_LED_LOAD_MODE")
        IN  Write(s6, "engine3_mode", "MCE_LED_RUN_MODE"))

\* the hardware writes of set_lysti_backlight_brightness, in program order
LystiWrites(s0) ==
    With(s0, LAMBDA s :
        LET s1 == Write(s, "engine3_mode", "MCE_LED_DISABLED_MODE")
            s2 == WriteAll(s1, led_brightness_paths, 0)
            s3 == WriteAll(s2, led_current_paths,
                           MAXIMUM_LYSTI_BACKLIGHT_LED_CURRENT)
            s4 == Write(s3, "engine3_mode", "MCE_LED_LOAD_MODE")
            s5 == Write(s4, "engine3_leds", key_backlight_mask(s.product))
            s6 == Write(s5, "engine3_load", s.pattern)
        IN  Write(s6, "engine3_mode", "MCE_LED_RUN_MODE"))

\* mutant: the guard looks at the slide, not at the timeout
LystiIgnoresSlideClosed(s) ==
    s.old_brightness = 0 /\ s.slide # "COVER_OPEN"

\* the guard of set_lysti_backlight_brightness
LystiIgnores(s) == s.old_brightness = 0 /\ s.cb_id = 0

set_lysti_backlight_brightness(s0, fadetime, brightness) ==
    With(s0, LAMBDA s :
        IF LystiIgnores(s) THEN s
        ELSE LET prog == LystiProgram(s.old_brightness, fadetime,
                                      brightness)
             IN  LystiWrites(
                     [s EXCEPT !.pattern =
                                   SubSeq(@, 1, 6) \o prog
                                       \o SubSeq(@, 13, 16),
                               !.old_brightness = brightness]))

\* mutant: the fade time handed over is written whatever the level is
set_n810_writes_fadetime(s, fadetime, brightness) ==
    LET s1 == Write(s, "MCE_KEYPAD_BACKLIGHT_FADETIME_SYS_PATH", fadetime)
        s2 == Write(s1, "MCE_KEYBOARD_BACKLIGHT_FADETIME_SYS_PATH", fadetime)
        s3 == Write(s2, "led_brightness_kb0", brightness)
    IN  Write(s3, "led_brightness_kb1", brightness)

set_n810_backlight_brightness(s, fadetime, brightness) ==
    LET ft == IF brightness = 0 THEN fadetime ELSE 0
        s1 == Write(s, "MCE_KEYPAD_BACKLIGHT_FADETIME_SYS_PATH", ft)
        s2 == Write(s1, "MCE_KEYBOARD_BACKLIGHT_FADETIME_SYS_PATH", ft)
        s3 == Write(s2, "led_brightness_kb0", brightness)
    IN  Write(s3, "led_brightness_kb1", brightness)

\* the switch on get_product_id() of set_backlight_brightness
ProductBacklight(s, fadetime, new_brightness) ==
    CASE s.product \in LystiProducts ->
           set_lysti_backlight_brightness(s, fadetime, new_brightness)
      [] s.product \in N810Products ->
           set_n810_backlight_brightness(s, fadetime, new_brightness)
      [] OTHER -> s

\* mutant: only the value -1 is skipped, a repeated level is applied again
set_backlight_brightness_rehash(s0, new_brightness) ==
    With(s0, LAMBDA s :
        LET fadetime == IF new_brightness = 0 THEN s.fade_out
                        ELSE s.fade_in
        IN  IF new_brightness = -1 THEN s
            ELSE ProductBacklight(
                     [s EXCEPT !.cached = new_brightness,
                               !.enabled = (new_brightness # 0)],
                     fadetime, new_brightness))

\* the output trigger of key_backlight_pipe
set_backlight_brightness(s0, new_brightness) ==
    With(s0, LAMBDA s :
        LET fadetime == IF new_brightness = 0 THEN s.fade_out
                        ELSE s.fade_in
        IN  IF new_brightness = s.cached \/ new_brightness = -1 THEN s
            ELSE ProductBacklight(
                     [s EXCEPT !.cached = new_brightness,
                               !.enabled = (new_brightness # 0)],
                     fadetime, new_brightness))

(***************************************************************************)
(* key_backlight_pipe                                                      *)
(***************************************************************************)
\* execute_datapipe(&key_backlight_pipe, level, USE_INDATA, CACHE_INDATA):
\* the pipe caches the value, then runs its output triggers
execute_key_backlight_pipe(s0, level) ==
    With(s0, LAMBDA s :
        LET s1 == Logged([s EXCEPT !.pipe = level],
                         [op |-> "push", path |-> "key_backlight_pipe",
                          value |-> level])
        IN  IF s.loaded THEN set_backlight_brightness(s1, level) ELSE s1)

\* datapipe_get_guint(key_backlight_pipe)
key_backlight_pipe_guint(s) == GuintBytes(s.pipe)

(***************************************************************************)
(* Enable / disable policy                                                 *)
(***************************************************************************)
\* mutant: the timeout is forgotten, the glib source is not removed
cancel_without_source_remove(s0) ==
    With(s0, LAMBDA s :
        IF s.cb_id # 0 THEN [s EXCEPT !.cb_id = 0] ELSE s)

cancel_key_backlight_timeout(s0) ==
    With(s0, LAMBDA s :
        IF s.cb_id # 0
        THEN [g_source_remove(s, s.cb_id) EXCEPT !.cb_id = 0]
        ELSE s)

\* mutant: the level 0 is applied without the comparison with the level
\* applied last
disable_forces_write(s) ==
    With(cancel_key_backlight_timeout(Called(s, "disable_key_backlight")),
         LAMBDA s1 :
        set_backlight_brightness_rehash(
            Logged([s1 EXCEPT !.pipe = 0],
                   [op |-> "push", path |-> "key_backlight_pipe",
                    value |-> 0]), 0))

\* mutant: the level 0 is pushed, the timeout is left pending
disable_keeps_timeout(s) ==
    execute_key_backlight_pipe(Called(s, "disable_key_backlight"), 0)

disable_key_backlight(s) ==
    execute_key_backlight_pipe(
        cancel_key_backlight_timeout(Called(s, "disable_key_backlight")), 0)

\* mutant: the callback forgets the timeout and leaves the backlight on
timeout_cb_without_disable(s) == [s EXCEPT !.cb_id = 0]

\* the glib source has been removed by the main loop when the callback
\* returns FALSE
key_backlight_timeout_cb(s) ==
    disable_key_backlight([s EXCEPT !.cb_id = 0])

setup_key_backlight_timeout(s) ==
    g_timeout_add_seconds(cancel_key_backlight_timeout(s))

\* mutant: the level is pushed but no timeout is set up
enable_without_timeout(s0) ==
    With(cancel_key_backlight_timeout(Called(s0, "enable_key_backlight")),
         LAMBDA s1 :
        IF s1.slide # "COVER_OPEN" THEN s1
        ELSE IF key_backlight_pipe_guint(s1) = GuintBytes(0)
             THEN execute_key_backlight_pipe(
                      s1, DEFAULT_KEY_BACKLIGHT_LEVEL)
             ELSE s1)

enable_key_backlight(s0) ==
    With(cancel_key_backlight_timeout(Called(s0, "enable_key_backlight")),
         LAMBDA s1 :
        IF s1.slide # "COVER_OPEN" THEN s1
        ELSE With(setup_key_backlight_timeout(s1), LAMBDA s2 :
                 IF key_backlight_pipe_guint(s2) = GuintBytes(0)
                 THEN execute_key_backlight_pipe(
                          s2, DEFAULT_KEY_BACKLIGHT_LEVEL)
                 ELSE s2))

\* mutant: the system state and the alarm dialog are not looked at
policy_without_state_gate(s0) ==
    With(Called(s0, "enable_key_backlight_policy"), LAMBDA s :
        IF s.slide # "COVER_OPEN" THEN s
        ELSE IF s.cb_id # 0
             THEN setup_key_backlight_timeout(s)
             ELSE enable_key_backlight(s))

\* mutant: a pending timeout is not looked at, the backlight is enabled
\* anew
policy_always_enables(s0) ==
    With(Called(s0, "enable_key_backlight_policy"), LAMBDA s :
        IF s.slide # "COVER_OPEN" THEN s
        ELSE IF \/ s.system = "MCE_STATE_USER"
                \/ s.alarm = "MCE_ALARM_UI_VISIBLE_INT32"
                \/ s.alarm = "MCE_ALARM_UI_RINGING_INT32"
             THEN enable_key_backlight(s)
             ELSE s)

\* mutant: a slide that is not open disables the backlight
policy_disables_when_closed(s0) ==
    With(Called(s0, "enable_key_backlight_policy"), LAMBDA s :
        IF s.slide # "COVER_OPEN" THEN disable_key_backlight(s)
        ELSE IF \/ s.system = "MCE_STATE_USER"
                \/ s.alarm = "MCE_ALARM_UI_VISIBLE_INT32"
                \/ s.alarm = "MCE_ALARM_UI_RINGING_INT32"
             THEN IF s.cb_id # 0
                  THEN setup_key_backlight_timeout(s)
                  ELSE enable_key_backlight(s)
             ELSE s)

enable_key_backlight_policy(s0) ==
    With(Called(s0, "enable_key_backlight_policy"), LAMBDA s :
        IF s.slide # "COVER_OPEN" THEN s
        ELSE IF \/ s.system = "MCE_STATE_USER"
                \/ s.alarm = "MCE_ALARM_UI_VISIBLE_INT32"
                \/ s.alarm = "MCE_ALARM_UI_RINGING_INT32"
             THEN IF s.cb_id # 0
                  THEN setup_key_backlight_timeout(s)
                  ELSE enable_key_backlight(s)
             ELSE s)

(***************************************************************************)
(* Triggers                                                                *)
(***************************************************************************)
device_inactive_trigger(s, device_inactive) ==
    IF device_inactive = FALSE THEN enable_key_backlight_policy(s) ELSE s

\* mutant: the tklock submode is not looked at
keyboard_slide_trigger_ignores_tklock(s, data) ==
    IF data = "COVER_OPEN"
    THEN enable_key_backlight_policy(s)
    ELSE disable_key_backlight(s)

keyboard_slide_trigger(s0, data) ==
    With(s0, LAMBDA s :
        IF data = "COVER_OPEN" /\ ~s.tklock
        THEN enable_key_backlight_policy(s)
        ELSE disable_key_backlight(s))

\* the body of display_state_trigger after the comparison with
\* old_display_state; dimmed is the set of states that disable
DisplaySwitch(s0, display_state, dimmed) ==
    With(s0, LAMBDA s :
        LET s1 ==
                CASE display_state \in dimmed -> disable_key_backlight(s)
                  [] display_state = "MCE_DISPLAY_ON" ->
                       IF s.old_display_state # "MCE_DISPLAY_ON"
                       THEN enable_key_backlight_policy(s)
                       ELSE s
                  [] OTHER -> s
        IN  [s1 EXCEPT !.old_display_state = display_state])

\* mutant: an event that repeats old_display_state is handled again
display_state_trigger_rehash(s, display_state) ==
    DisplaySwitch(s, display_state,
                  {"MCE_DISPLAY_OFF", "MCE_DISPLAY_LPM_OFF",
                   "MCE_DISPLAY_LPM_ON", "MCE_DISPLAY_DIM"})

\* mutant: a dimmed display leaves the backlight alone
display_state_trigger_dim_ignored(s0, display_state) ==
    With(s0, LAMBDA s :
        IF s.old_display_state = display_state THEN s
        ELSE DisplaySwitch(s, display_state,
                           {"MCE_DISPLAY_OFF", "MCE_DISPLAY_LPM_OFF",
                            "MCE_DISPLAY_LPM_ON"}))

display_state_trigger(s0, display_state) ==
    With(s0, LAMBDA s :
        IF s.old_display_state = display_state THEN s
        ELSE DisplaySwitch(s, display_state,
                           {"MCE_DISPLAY_OFF", "MCE_DISPLAY_LPM_OFF",
                            "MCE_DISPLAY_LPM_ON", "MCE_DISPLAY_DIM"}))

\* mutant: the backlight is left alone while the alarm dialog is shown
system_state_trigger_keeps_alarm(s0, system_state) ==
    With(s0, LAMBDA s :
        IF /\ system_state # "MCE_STATE_USER"
           /\ s.alarm = "MCE_ALARM_UI_OFF_INT32"
        THEN disable_key_backlight(s)
        ELSE s)

system_state_trigger(s, system_state) ==
    IF system_state # "MCE_STATE_USER" THEN disable_key_backlight(s) ELSE s

\* mutant: the reply is taken from the level channel, not from the flag
send_key_backlight_state_from_pipe(s) ==
    Logged(s, [op |-> "reply", path |-> "dbus", value |-> (s.pipe # 0)])

\* the handler of the get_key_backlight_state method call
send_key_backlight_state(s) ==
    Logged(s, [op |-> "reply", path |-> "dbus", value |-> s.enabled])

(***************************************************************************)
(* Module load and unload                                                  *)
(***************************************************************************)
\* g_module_check_init: the check of a configured fade time
SanitizeFadeTime(conf, default) ==
    IF (conf % 125) # 0 /\ conf > 1000 THEN default ELSE conf

\* mutant: the triggers are removed, the timeout is left registered
g_module_unload_keeps_timeout(s) == [s EXCEPT !.loaded = FALSE]

\* g_module_unload: the file handles are closed (no write), the triggers
\* are removed and the timeout is cancelled
g_module_unload(s) ==
    cancel_key_backlight_timeout([s EXCEPT !.loaded = FALSE])

Init ==
    /\ product \in ProductIds
    /\ \E conf \in ConfFadeInTimes :
          key_backlight_fade_in_time =
              SanitizeFadeTime(conf, DEFAULT_KEY_BACKLIGHT_FADE_IN_TIME)
    /\ \E conf \in ConfFadeOutTimes :
          key_backlight_fade_out_time =
              SanitizeFadeTime(conf, DEFAULT_KEY_BACKLIGHT_FADE_OUT_TIME)
    /\ key_backlight_timeout_cb_id = 0
    /\ timers = {}
    /\ key_backlight_is_enabled = FALSE
    /\ cached_brightness = -1
    /\ old_brightness = 0
    /\ pattern = InitPattern
    /\ old_display_state = "MCE_DISPLAY_UNDEF"
    /\ key_backlight_pipe = 0
    /\ keyboard_slide_pipe \in CoverStates
    /\ system_state_pipe \in SystemStates
    /\ alarm_ui_state_pipe \in AlarmUiStates
    /\ tklock_submode \in BOOLEAN
    /\ loaded = TRUE
    /\ quiescent = FALSE
    /\ event = [name |-> "g_module_check_init", arg |-> 0]
    /\ log = <<>>

(***************************************************************************)
(* Events: one action per handler.  An event on a pipe caches its value in *)
(* the pipe and runs the trigger while the module is loaded.               *)
(***************************************************************************)
SystemStateEvent(st) ==
    /\ Handle("system_state_pipe", st)
    /\ LET s0 == [Begin EXCEPT !.system = st]
       IN  Commit(IF loaded THEN system_state_trigger(s0, st) ELSE s0)

DeviceInactiveEvent(inactive) ==
    /\ Handle("device_inactive_pipe", inactive)
    /\ Commit(IF loaded THEN device_inactive_trigger(Begin, inactive)
              ELSE Begin)

KeyboardSlideEvent(c) ==
    /\ Handle("keyboard_slide_pipe", c)
    /\ LET s0 == [Begin EXCEPT !.slide = c]
       IN  Commit(IF loaded THEN keyboard_slide_trigger(s0, c) ELSE s0)

DisplayStateEvent(d) ==
    /\ Handle("display_state_pipe", d)
    /\ Commit(IF loaded THEN display_state_trigger(Begin, d) ELSE Begin)

\* a level request of another component of the daemon
LevelRequest(level) ==
    /\ Handle("key_backlight_pipe", level)
    /\ Commit(execute_key_backlight_pipe(Begin, level))

\* alarm_ui_state_pipe changes; the module has no trigger on it
AlarmUiEvent(a) ==
    /\ Handle("alarm_ui_state_pipe", a)
    /\ Commit([Begin EXCEPT !.alarm = a])

\* the tklock bit of the submode changes; the module has no trigger on it
SubmodeEvent(b) ==
    /\ Handle("submode", b)
    /\ Commit([Begin EXCEPT !.tklock = b])

\* a registered timeout expires: glib runs the callback and, as it returns
\* FALSE, removes the source
TimerExpiry ==
    \E id \in timers :
        /\ Handle("timeout", id)
        /\ Commit(key_backlight_timeout_cb(
                      [Begin EXCEPT !.timers = @ \ {id}]))

StatusQuery ==
    /\ loaded
    /\ Handle("get_key_backlight_state", 0)
    /\ Commit(send_key_backlight_state(Begin))

Unload ==
    /\ loaded
    /\ Handle("g_module_unload", 0)
    /\ Commit(g_module_unload(Begin))

\* the events the daemon delivers to the module
Event ==
    \/ \E st \in SystemStates : SystemStateEvent(st)
    \/ \E inactive \in BOOLEAN : DeviceInactiveEvent(inactive)
    \/ \E c \in CoverStates : KeyboardSlideEvent(c)
    \/ \E d \in DisplayStates : DisplayStateEvent(d)
    \/ \E level \in RequestLevels : LevelRequest(level)
    \/ \E a \in AlarmUiStates : AlarmUiEvent(a)
    \/ \E b \in BOOLEAN : SubmodeEvent(b)
    \/ StatusQuery

\* the life of the loaded module
Next ==
    \/ ~quiescent /\ Event
    \/ TimerExpiry

Spec == Init /\ [][Next]_vars

\* the module is unloaded at some point; the pipes go on delivering events
NextUnload ==
    \/ Next
    \/ ~quiescent /\ Unload

SpecUnload == Init /\ [][NextUnload]_vars

\* from some point on no further event arrives, and a registered timeout
\* expires in the end (the main loop keeps running)
Quiesce ==
    /\ ~quiescent
    /\ quiescent' = TRUE
    /\ UNCHANGED <<product, key_backlight_fade_in_time,
                   key_backlight_fade_out_time, key_backlight_timeout_cb_id,
                   timers, key_backlight_is_enabled, cached_brightness,
                   old_brightness, pattern, old_display_state,
                   key_backlight_pipe, keyboard_slide_pipe,
                   system_state_pipe, alarm_ui_state_pipe, tklock_submode,
                   loaded, event, log>>

NextQuiet ==
    \/ Next
    \/ Quiesce

\* the daemon has just started: slide closed, no alarm, no tklock
InitQuiet ==
    /\ Init
    /\ keyboard_slide_pipe = "COVER_CLOSED"
    /\ system_state_pipe = "MCE_STATE_USER"
    /\ alarm_ui_state_pipe = "MCE_ALARM_UI_OFF_INT32"
    /\ tklock_submode = FALSE

SpecQuiet == InitQuiet /\ [][NextQuiet]_vars /\ WF_vars(TimerExpiry)

(***************************************************************************)
(* The Lysti backend on its own: set_lysti_backlight_brightness is called  *)
(* with fade times and levels drawn from the sets below while a timeout is *)
(* pending (the guard lets every call pass).  The first call finds the     *)
(* statics as the compiler initialised them, the later ones as the call    *)
(* before left them.                                                       *)
(***************************************************************************)
\* levels: both ends of 0..255, their neighbours, and 64 and 192
LystiLevels == {0, 1, 64, 192, 254, DEFAULT_KEY_BACKLIGHT_LEVEL}

\* fade times: 0 (no fade), 1, multiples of 125 up to 1000, the smallest
\* time with fadetime * 1000 above 2^32 - 1, the largest gint, and -1 (the
\* guint 2^32 - 1)
LystiFadeTimes == {0, 1, 125, 250, 500, 1000, 4294968, 2147483647, -1}

InitLysti ==
    /\ product \in LystiProducts
    /\ key_backlight_fade_in_time = DEFAULT_KEY_BACKLIGHT_FADE_IN_TIME
    /\ key_backlight_fade_out_time = DEFAULT_KEY_BACKLIGHT_FADE_OUT_TIME
    /\ key_backlight_timeout_cb_id = 1
    /\ timers = {1}
    /\ key_backlight_is_enabled = FALSE
    /\ cached_brightness = -1
    /\ old_brightness = 0
    /\ pattern = InitPattern
    /\ old_display_state = "MCE_DISPLAY_UNDEF"
    /\ key_backlight_pipe = 0
    /\ keyboard_slide_pipe = "COVER_OPEN"
    /\ system_state_pipe = "MCE_STATE_USER"
    /\ alarm_ui_state_pipe = "MCE_ALARM_UI_OFF_INT32"
    /\ tklock_submode = FALSE
    /\ loaded = TRUE
    /\ quiescent = FALSE
    /\ event = [name |-> "g_module_check_init", arg |-> 0]
    /\ log = <<>>

LystiCall(fadetime, brightness) ==
    /\ Handle("set_lysti_backlight_brightness", <<fadetime, brightness>>)
    /\ Commit(set_lysti_backlight_brightness(Begin, fadetime, brightness))

NextLysti ==
    \E fadetime \in LystiFadeTimes, brightness \in LystiLevels :
        LystiCall(fadetime, brightness)

SpecLysti == InitLysti /\ [][NextLysti]_vars

(***************************************************************************)
(* Reading the trace of an event                                           *)
(***************************************************************************)
\* the trace l has an entry of kind op
HasOp(l, op) == \E i \in 1..Len(l) : l[i].op = op

\* the level has been pushed into key_backlight_pipe
Pushed(l, level) ==
    \E i \in 1..Len(l) : l[i].op = "push" /\ l[i].value = level

\* the number of entries of kind op on path
Count(l, op, path) ==
    Cardinality({i \in 1..Len(l) : l[i].op = op /\ l[i].path = path})

\* the event handled last
Handled(name, arg) == event.name = name /\ event.arg = arg

\* the state Disable leaves: no timeout, level channel 0, flag FALSE
Disabled ==
    /\ key_backlight_timeout_cb_id = 0
    /\ timers = {}
    /\ key_backlight_pipe = 0
    /\ key_backlight_is_enabled = FALSE

(***************************************************************************)
(* Claims                                                                  *)
(***************************************************************************)

\* C1: after any sequence of events (module unload included) at most one
\* inactivity timeout is registered, key_backlight_timeout_cb_id is
\* non-zero exactly when one is registered (and is its id), and a second
\* cancel_key_backlight_timeout leaves the state as the first left it.
C1_OneTimeoutCancelIdempotent ==
    /\ Cardinality(timers) <= 1
    /\ (key_backlight_timeout_cb_id # 0) <=> (timers # {})
    /\ key_backlight_timeout_cb_id # 0
          => timers = {key_backlight_timeout_cb_id}
    /\ cancel_key_backlight_timeout(cancel_key_backlight_timeout(Cur))
          = cancel_key_backlight_timeout(Cur)

\* a timeout is registered after a restart (the old one was removed)
C1_Witness ==
    /\ Cardinality(timers) = 1
    /\ key_backlight_timeout_cb_id # 0
    /\ HasOp(log, "timer_remove")
    /\ HasOp(log, "timer_add")

\* the events that evaluate the enable policy
PolicyEvent ==
    \/ DeviceInactiveEvent(FALSE)
    \/ ~tklock_submode /\ KeyboardSlideEvent("COVER_OPEN")
    \/ /\ old_display_state # "MCE_DISPLAY_ON"
       /\ DisplayStateEvent("MCE_DISPLAY_ON")

\* C2: when an event evaluates the enable policy with the slide open, the
\* system state USER, the level channel at 0 and no timeout pending, then
\* after the event a timeout is registered, the level channel holds
\* DEFAULT_KEY_BACKLIGHT_LEVEL and the enabled flag is TRUE.
C2_PolicyEnables ==
    [][(/\ loaded
        /\ PolicyEvent
        /\ keyboard_slide_pipe' = "COVER_OPEN"
        /\ system_state_pipe = "MCE_STATE_USER"
        /\ key_backlight_pipe = 0
        /\ key_backlight_timeout_cb_id = 0)
       => (/\ key_backlight_timeout_cb_id' # 0
           /\ timers' = {key_backlight_timeout_cb_id'}
           /\ key_backlight_pipe' = DEFAULT_KEY_BACKLIGHT_LEVEL
           /\ key_backlight_is_enabled' = TRUE)]_vars

\* the policy has run with the slide open in USER state, has registered a
\* timeout and has pushed the default level
C2_Witness ==
    /\ Count(log, "call", "enable_key_backlight_policy") = 1
    /\ keyboard_slide_pipe = "COVER_OPEN"
    /\ system_state_pipe = "MCE_STATE_USER"
    /\ HasOp(log, "timer_add")
    /\ ~HasOp(log, "timer_remove")
    /\ Pushed(log, DEFAULT_KEY_BACKLIGHT_LEVEL)
    /\ key_backlight_is_enabled

\* C3: after the system state trigger handles a state other than USER, no
\* timeout is pending, the level channel is 0 and the enabled flag is
\* FALSE, whatever the state before (alarm dialog shown, timeout pending).
C3_SystemStateDisables ==
    [][\A st \in SystemStates \ {"MCE_STATE_USER"} :
          (loaded /\ SystemStateEvent(st)) => Disabled']_vars

\* a state other than USER was handled while the alarm was ringing and a
\* timeout was pending
C3_Witness ==
    /\ \E st \in SystemStates \ {"MCE_STATE_USER"} :
          Handled("system_state_pipe", st)
    /\ alarm_ui_state_pipe = "MCE_ALARM_UI_RINGING_INT32"
    /\ HasOp(log, "timer_remove")
    /\ Disabled

\* C4: once the backlight is enabled with a timeout registered and no
\* further event arrives, the timeout expires in the end: the handle is 0,
\* level 0 has been pushed into the level channel and the flag is FALSE.
C4_TimeoutDisables ==
    (quiescent /\ key_backlight_timeout_cb_id # 0 /\ key_backlight_is_enabled)
        ~> (/\ key_backlight_timeout_cb_id = 0
            /\ Pushed(log, 0)
            /\ key_backlight_is_enabled = FALSE)

\* the timeout has expired after the events stopped and has disabled a
\* backlight that was on (the hardware was written)
C4_Witness ==
    /\ quiescent
    /\ \E id \in 1..MaxSourceId : Handled("timeout", id)
    /\ Pushed(log, 0)
    /\ HasOp(log, "write")
    /\ Disabled

\* C5: on every hardware model a level request whose level is the level
\* applied last (cached_brightness) or is -1 writes nothing to the hardware
\* and leaves cached_brightness and the enabled flag as they are.
C5_RepeatedLevelNoWrite ==
    [][\A level \in RequestLevels :
          (/\ LevelRequest(level)
           /\ (level = cached_brightness \/ level = -1))
          => (/\ ~HasOp(log', "write")
              /\ cached_brightness' = cached_brightness
              /\ key_backlight_is_enabled' = key_backlight_is_enabled)]_vars

\* a non-zero level was requested again on a product with backlight
C5_Witness ==
    /\ product \in LystiProducts \cup N810Products
    /\ cached_brightness > 0
    /\ Handled("key_backlight_pipe", cached_brightness)
    /\ Len(log) = 1
    /\ key_backlight_is_enabled

\* C6 (as the specification states it): on Lysti, with old_brightness 0
\* and no timeout registered, a request for a non-zero level writes
\* nothing and changes neither cached_brightness, the enabled flag nor
\* old_brightness.
C6_LystiGuardNoOp ==
    [][\A level \in RequestLevels \ {0} :
          (/\ loaded
           /\ product \in LystiProducts
           /\ old_brightness = 0
           /\ key_backlight_timeout_cb_id = 0
           /\ LevelRequest(level))
          => (/\ ~HasOp(log', "write")
              /\ cached_brightness' = cached_brightness
              /\ key_backlight_is_enabled' = key_backlight_is_enabled
              /\ old_brightness' = old_brightness)]_vars

\* C7 (as the specification states it): when the enable policy is
\* evaluated while the slide is not open, Disable is invoked: level 0 has
\* been pushed and no timeout is registered.
C7_SlideClosedDisables ==
    [][(/\ loaded
        /\ PolicyEvent
        /\ keyboard_slide_pipe' # "COVER_OPEN")
       => (/\ Pushed(log', 0)
           /\ key_backlight_timeout_cb_id' = 0
           /\ timers' = {})]_vars

\* C7 (amended): when the enable policy is evaluated while the slide is not
\* open it returns at once: nothing is pushed into the level channel, no
\* timeout is registered or removed, nothing is written to the hardware,
\* and the handle, the level channel, the cached level and the enabled
\* flag are unchanged.
C7_SlideClosedNoEffect ==
    [][(/\ loaded
        /\ PolicyEvent
        /\ keyboard_slide_pipe' # "COVER_OPEN")
       => (/\ Count(log', "call", "enable_key_backlight_policy") = 1
           /\ Len(log') = 1
           /\ UNCHANGED <<key_backlight_timeout_cb_id, timers,
                          key_backlight_pipe, cached_brightness,
                          key_backlight_is_enabled, old_brightness,
                          pattern>>)]_vars

\* the policy has run with the slide closed and has left a lit level
\* channel alone
C7_Witness ==
    /\ keyboard_slide_pipe = "COVER_CLOSED"
    /\ Len(log) = 1
    /\ Count(log, "call", "enable_key_backlight_policy") = 1
    /\ key_backlight_pipe > 0
    /\ key_backlight_is_enabled

\* C8: a display state event invokes the enable policy once when it is ON
\* and the state seen last is not ON, and not at all otherwise; the
\* trigger then holds the event as the state seen last; an event that
\* repeats the state seen last, or is UNDEF, changes neither timeout,
\* level channel nor enabled flag.
C8_DisplayOnOncePerTransition ==
    [][\A d \in DisplayStates :
          (loaded /\ DisplayStateEvent(d))
          => (/\ old_display_state' = d
              /\ Count(log', "call", "enable_key_backlight_policy")
                    = (IF /\ d = "MCE_DISPLAY_ON"
                          /\ old_display_state # "MCE_DISPLAY_ON"
                       THEN 1 ELSE 0)
              /\ (d = old_display_state \/ d = "MCE_DISPLAY_UNDEF")
                    => (/\ log' = <<>>
                        /\ UNCHANGED <<key_backlight_timeout_cb_id, timers,
                                       key_backlight_pipe,
                                       key_backlight_is_enabled>>))]_vars

\* ON was delivered again while the display was ON and a timeout was
\* pending: the trace is empty
C8_Witness ==
    /\ Handled("display_state_pipe", "MCE_DISPLAY_ON")
    /\ log = <<>>
    /\ old_display_state = "MCE_DISPLAY_ON"
    /\ keyboard_slide_pipe = "COVER_OPEN"
    /\ system_state_pipe = "MCE_STATE_USER"
    /\ key_backlight_timeout_cb_id # 0

\* the display states that dim or switch off the display
DimmedDisplayStates ==
    {"MCE_DISPLAY_OFF", "MCE_DISPLAY_LPM_OFF", "MCE_DISPLAY_LPM_ON",
     "MCE_DISPLAY_DIM"}

\* C9: after the display state trigger handles OFF, LPM_OFF, LPM_ON or DIM
\* coming from another state seen last, no timeout is pending, the level
\* channel is 0 and the enabled flag is FALSE, whatever slide, system and
\* alarm state are.
C9_DimmedDisplayDisables ==
    [][\A d \in DimmedDisplayStates :
          (loaded /\ old_display_state # d /\ DisplayStateEvent(d))
          => Disabled']_vars

\* the display dimmed with the slide open, the alarm ringing and a timeout
\* pending
C9_Witness ==
    /\ Handled("display_state_pipe", "MCE_DISPLAY_DIM")
    /\ keyboard_slide_pipe = "COVER_OPEN"
    /\ alarm_ui_state_pipe = "MCE_ALARM_UI_RINGING_INT32"
    /\ HasOp(log, "timer_remove")
    /\ HasOp(log, "write")
    /\ Disabled

\* C10: the keyboard slide trigger evaluates the enable policy exactly when
\* the position delivered is COVER_OPEN and the tklock submode is clear;
\* otherwise it calls Disable, after which no timeout is pending and the
\* level channel is 0.
C10_SlideTrigger ==
    [][\A c \in CoverStates :
          (loaded /\ KeyboardSlideEvent(c))
          => IF c = "COVER_OPEN" /\ ~tklock_submode
             THEN /\ Count(log', "call", "enable_key_backlight_policy") = 1
                  /\ Count(log', "call", "disable_key_backlight") = 0
             ELSE /\ Count(log', "call", "enable_key_backlight_policy") = 0
                  /\ Count(log', "call", "disable_key_backlight") = 1
                  /\ Pushed(log', 0)
                  /\ key_backlight_timeout_cb_id' = 0
                  /\ timers' = {}
                  /\ key_backlight_pipe' = 0]_vars

\* the slide was opened under tklock while a timeout was pending
C10_Witness ==
    /\ Handled("keyboard_slide_pipe", "COVER_OPEN")
    /\ tklock_submode
    /\ Count(log, "call", "disable_key_backlight") = 1
    /\ HasOp(log, "timer_remove")
    /\ key_backlight_timeout_cb_id = 0
    /\ key_backlight_pipe = 0

\* a level other than 0 has been pushed into key_backlight_pipe
PushedNonZero(l) ==
    \E i \in 1..Len(l) : l[i].op = "push" /\ l[i].value # 0

\* the events of the four streams with a trigger that takes no level
StreamEvent ==
    \/ \E inactive \in BOOLEAN : DeviceInactiveEvent(inactive)
    \/ \E c \in CoverStates : KeyboardSlideEvent(c)
    \/ \E d \in DisplayStates : DisplayStateEvent(d)
    \/ \E st \in SystemStates : SystemStateEvent(st)

PolicyGate ==
    /\ keyboard_slide_pipe = "COVER_OPEN"
    /\ \/ system_state_pipe = "MCE_STATE_USER"
       \/ alarm_ui_state_pipe = "MCE_ALARM_UI_VISIBLE_INT32"
       \/ alarm_ui_state_pipe = "MCE_ALARM_UI_RINGING_INT32"

\* C12: an event during which the module registers (or registers anew) the
\* timeout, or pushes a non-zero level of its own into the level channel
\* (the event is not a level request of another component), is handled
\* with the slide open and the system state USER or the alarm dialog
\* visible or ringing.
C12_EnableOnlyWhenGated ==
    (\/ HasOp(log, "timer_add")
     \/ event.name # "key_backlight_pipe" /\ PushedNonZero(log))
        => PolicyGate

\* the backlight was enabled outside USER state while the alarm rang
C12_Witness ==
    /\ system_state_pipe # "MCE_STATE_USER"
    /\ alarm_ui_state_pipe = "MCE_ALARM_UI_RINGING_INT32"
    /\ HasOp(log, "timer_add")
    /\ Pushed(log, DEFAULT_KEY_BACKLIGHT_LEVEL)
    /\ key_backlight_is_enabled

\* the places of the trace l where a level other than -1 is pushed
LevelPushes(l) ==
    {i \in 1..Len(l) : l[i].op = "push" /\ l[i].value # -1}

\* the level pushed last in l (LevelPushes(l) is not empty)
LastLevel(l) ==
    l[CHOOSE i \in LevelPushes(l) : \A j \in LevelPushes(l) : j <= i].value

\* C13: the enabled flag is FALSE at the start and after every event it
\* tells whether the level requested last, -1 aside, is non-zero (it
\* keeps its value when the event requests no such level); the status
\* query replies with the flag and nothing else: no timeout is registered
\* or removed, nothing is pushed or written, and timeout, level channel,
\* cached level, flag and backend state keep their values.
C13_StatusQueryRepliesEnabled ==
    /\ key_backlight_is_enabled = FALSE
    /\ [][/\ key_backlight_is_enabled'
               = (IF LevelPushes(log') = {} THEN key_backlight_is_enabled
                  ELSE LastLevel(log') # 0)
          /\ StatusQuery
               => (/\ log' = <<[op |-> "reply", path |-> "dbus",
                                value |-> key_backlight_is_enabled]>>
                   /\ UNCHANGED <<key_backlight_timeout_cb_id, timers,
                                  key_backlight_pipe, cached_brightness,
                                  key_backlight_is_enabled, old_brightness,
                                  pattern, old_display_state>>)]_vars

\* the query was answered TRUE while a timeout was pending and the level
\* requested last was -1
C13_Witness ==
    /\ Handled("get_key_backlight_state", 0)
    /\ Len(log) = 1
    /\ log[1].op = "reply"
    /\ log[1].value = TRUE
    /\ key_backlight_pipe = -1
    /\ key_backlight_timeout_cb_id # 0

\* disable_key_backlight has run during the event with trace l
DisableRan(l) == Count(l, "call", "disable_key_backlight") = 1

\* C14: an event that runs disable_key_backlight pushes level 0 and leaves
\* no timeout, the level channel at 0 and the flag FALSE, whether a
\* timeout was pending or not; when the event before it ran
\* disable_key_backlight too, the second run pushes level 0 again, writes
\* nothing to the hardware, removes no timeout and leaves timeout, level
\* channel, cached level, flag and backend state as the first run left
\* them.
C14_DisableIdempotent ==
    [][(loaded /\ DisableRan(log'))
       => (/\ Disabled'
           /\ Pushed(log', 0)
           /\ DisableRan(log)
               => (/\ ~HasOp(log', "write")
                   /\ ~HasOp(log', "timer_remove")
                   /\ UNCHANGED <<key_backlight_timeout_cb_id, timers,
                                  key_backlight_pipe, cached_brightness,
                                  key_backlight_is_enabled, old_brightness,
                                  pattern>>))]_vars

\* Disable has run on a product with backlight that was switched off
\* before: level 0 is pushed, nothing is written
C14_Witness ==
    /\ product \in LystiProducts \cup N810Products
    /\ DisableRan(log)
    /\ Len(log) = 2
    /\ Pushed(log, 0)
    /\ cached_brightness = 0
    /\ Disabled

\* the number a character of convert stands for
HexValue(ch) == CHOOSE i \in 0..15 : convert[i + 1] = ch

\* the step speed byte of a program: pattern[8], pattern[9]
StepSpeedByte(p) == HexValue(p[9]) * 16 + HexValue(p[10])

\* C15: a call of the Lysti backend with a fade time other than 0 and a
\* level other than the one applied last stores a step speed byte in
\* 2..63, that is a step rate (the byte without its direction bit) in
\* 1..31, the difference 1 with a fade time whose product with 1000
\* leaves 32 bits and the difference 255 with fade time 1 included.
C15_StepRateClamped ==
    [][\A fadetime \in LystiFadeTimes, brightness \in LystiLevels :
          (/\ LystiCall(fadetime, brightness)
           /\ fadetime # 0
           /\ brightness # old_brightness)
          => (/\ StepSpeedByte(pattern') \in 2..63
              /\ (StepSpeedByte(pattern') \div 2) \in 1..31
              /\ (StepSpeedByte(pattern') % 2 = 1)
                    <=> (brightness < old_brightness))]_vars

\* the level rose by 1 with the largest fade time: the rate is 31
C15_Witness ==
    /\ event.name = "set_lysti_backlight_brightness"
    /\ event.arg = <<2147483647, 1>>
    /\ old_brightness = 1
    /\ HasOp(log, "write")
    /\ StepSpeedByte(pattern) = 62
    /\ SubSeq(pattern, 7, 8) = <<"0", "0">>
    /\ SubSeq(pattern, 11, 12) = <<"0", "1">>

\* the reference program of the specification: two hexadecimal digits of
\* a number in 0..255
Hex2(v) == <<convert[(v \div 16) + 1], convert[(v % 16) + 1]>>

\* clamp(x, 1, 31)
ClampRate(x) == IF x < 1 THEN 1 ELSE IF x > 31 THEN 31 ELSE x

\* clamp(round((fade * 1000 / delta) / 0.49 / 1000), 1, 31), rounded to the
\* nearest integer: the quotient of fade * 1000 by 490 * delta, plus a
\* half, rounded down
RateRounded(fade, delta) ==
    ClampRate((2 * fade * 1000 + 490 * delta) \div (2 * 490 * delta))

\* the same with the quotient rounded down (towards zero)
RateTruncated(fade, delta) ==
    ClampRate((fade * 1000) \div (490 * delta))

ReferenceProgram(old, new, fade, Rate(_, _)) ==
    LET delta == ABS(new - old)
    IN  <<"9", "d", "8", "0", "4", "0">>
            \o (IF fade = 0 \/ delta = 0
                THEN Hex2(new) \o <<"0", "0", "0", "0">>
                ELSE Hex2(old)
                        \o Hex2(2 * Rate(fade, delta)
                                    + (IF new < old THEN 1 ELSE 0))
                        \o Hex2(delta))
            \o <<"c", "0", "0", "0">>

\* the fade times of LystiFadeTimes whose product with 1000 has 32 bits
BoundedFadeTimes ==
    {fade \in LystiFadeTimes :
        0 <= fade /\ fade <= DEFAULT_KEY_BACKLIGHT_FADE_OUT_TIME}

\* the program written to engine3_load during the event with trace l
LoadedPrograms(l) ==
    {l[i].value : i \in {j \in 1..Len(l) :
                            l[j].op = "write" /\ l[j].path = "engine3_load"}}

\* C16 (as the specification states it): the program the Lysti backend
\* loads is the reference program with the rate rounded to the nearest
\* integer.
C16_ProgramIsRoundedReference ==
    [][\A fade \in BoundedFadeTimes, new \in LystiLevels :
          LystiCall(fade, new)
          => LoadedPrograms(log')
                = {ReferenceProgram(old_brightness, new, fade,
                                    RateRounded)}]_vars

\* C16 (amended): the program the Lysti backend loads is the reference
\* program with the rate rounded down: prefix "9d80" "40", suffix "c000";
\* hex2(new) "0000" when the fade time or the difference is 0; otherwise
\* hex2(old), hex2(2 * rate + direction bit), hex2(|difference|) with
\* rate = clamp(floor((fade * 1000 / |difference|) / 0.49 / 1000), 1, 31).
\* The pattern an earlier call left has no part in it.
C16_ProgramIsTruncatedReference ==
    [][\A fade \in BoundedFadeTimes, new \in LystiLevels :
          LystiCall(fade, new)
          => (/\ LoadedPrograms(log')
                    = {ReferenceProgram(old_brightness, new, fade,
                                        RateTruncated)}
              /\ LoadedPrograms(log') = {pattern'})]_vars

\* old = 64, new = 192, fade time 500: start 0x40, step speed 0x0e (rate
\* 7, increasing), 0x80 steps
C16_Witness ==
    /\ event.name = "set_lysti_backlight_brightness"
    /\ event.arg = <<500, 192>>
    /\ old_brightness = 192
    /\ pattern = <<"9", "d", "8", "0", "4", "0", "4", "0",
                   "0", "e", "8", "0", "c", "0", "0", "0">>
    /\ LoadedPrograms(log) = {pattern}

\* C17 (as the specification states it): after startup a fade time below
\* 1000 is a multiple of 125 or the default of its key.
C17_FadeTimesSanitized ==
    /\ key_backlight_fade_in_time < 1000
          => \/ key_backlight_fade_in_time % 125 = 0
             \/ key_backlight_fade_in_time
                   = DEFAULT_KEY_BACKLIGHT_FADE_IN_TIME
    /\ key_backlight_fade_out_time < 1000
          => \/ key_backlight_fade_out_time % 125 = 0
             \/ key_backlight_fade_out_time
                   = DEFAULT_KEY_BACKLIGHT_FADE_OUT_TIME

\* C18: once g_module_unload has run no timeout is registered and the
\* handle is 0, the timeout callback does not run, and an event on any
\* pipe runs no function of the module: nothing is written to the
\* hardware, no timeout is registered, nothing is pushed into the level
\* channel (the level a request of another component carries aside), and
\* the statics of the module keep their values.
C18_UnloadedIsInert ==
    /\ [](~loaded
            => (/\ timers = {}
                /\ key_backlight_timeout_cb_id = 0
                /\ event.name # "timeout"
                /\ ~HasOp(log, "write")
                /\ ~HasOp(log, "timer_add")
                /\ ~HasOp(log, "call")
                /\ IF event.name = "key_backlight_pipe"
                   THEN Len(log) = 1
                   ELSE ~HasOp(log, "push")))
    /\ [][~loaded
            => (/\ ~loaded'
                /\ UNCHANGED <<key_backlight_timeout_cb_id, timers,
                               cached_brightness, key_backlight_is_enabled,
                               old_brightness, pattern,
                               old_display_state>>)]_vars

\* the module was unloaded with the backlight on; later the device became
\* active with the slide open in USER state and nothing happened
C18_Witness ==
    /\ ~loaded
    /\ Handled("device_inactive_pipe", FALSE)
    /\ keyboard_slide_pipe = "COVER_OPEN"
    /\ system_state_pipe = "MCE_STATE_USER"
    /\ key_backlight_is_enabled
    /\ key_backlight_pipe = DEFAULT_KEY_BACKLIGHT_LEVEL
    /\ timers = {}
    /\ log = <<>>

\* C19: when an event evaluates the enable policy with its gate open and
\* a timeout pending, the policy removes that timeout and registers a new
\* one and does nothing else: enable_key_backlight is not called, nothing
\* is pushed or written, and level channel, cached level, flag and
\* backend state keep their values; with no timeout pending it calls
\* enable_key_backlight.
C19_PolicyRestartsTimeout ==
    [][(loaded /\ PolicyEvent /\ PolicyGate')
       => IF key_backlight_timeout_cb_id # 0
          THEN /\ log' = <<[op |-> "call",
                            path |-> "enable_key_backlight_policy",
                            value |-> 0],
                           [op |-> "timer_remove", path |-> "glib",
                            value |-> key_backlight_timeout_cb_id],
                           [op |-> "timer_add", path |-> "glib",
                            value |-> key_backlight_timeout_cb_id']>>
               /\ key_backlight_timeout_cb_id' # 0
               /\ timers' = {key_backlight_timeout_cb_id'}
               /\ UNCHANGED <<key_backlight_pipe, cached_brightness,
                              key_backlight_is_enabled, old_brightness,
                              pattern>>
          ELSE /\ Count(log', "call", "enable_key_backlight") = 1
               /\ HasOp(log', "timer_add")]_vars

\* the policy ran with a timeout pending after another component had set
\* the level to 0: the timeout is registered anew, the level stays 0
C19_Witness ==
    /\ Handled("device_inactive_pipe", FALSE)
    /\ PolicyGate
    /\ Len(log) = 3
    /\ HasOp(log, "timer_remove")
    /\ HasOp(log, "timer_add")
    /\ key_backlight_pipe = 0
    /\ key_backlight_is_enabled = FALSE
    /\ key_backlight_timeout_cb_id # 0

\* the hardware writes of the trace l, as <<path, value>> pairs
WritesOf(l) ==
    LET IsWrite(e) == e.op = "write"
        w == SelectSeq(l, IsWrite)
    IN  [i \in 1..Len(w) |-> <<w[i].path, w[i].value>>]

\* engine disabled, the six brightness channels 0, the six current
\* channels at the maximum
LystiPrologue ==
    <<<<"engine3_mode", "MCE_LED_DISABLED_MODE">>>>
        \o [i \in 1..6 |-> <<led_brightness_paths[i], 0>>]
        \o [i \in 1..6 |-> <<led_current_paths[i],
                              MAXIMUM_LYSTI_BACKLIGHT_LED_CURRENT>>]

\* C20 (as the specification states it): a Lysti level change writes the
\* prologue, then the program and the channel mask of the product, and
\* then the load mode followed by the run mode, the last write.
C20_LoadModeAfterProgram ==
    (product \in LystiProducts /\ HasOp(log, "write"))
        => LET w == WritesOf(log)
               n == Len(w)
           IN  /\ n = Len(LystiPrologue) + 4
               /\ SubSeq(w, 1, n - 4) = LystiPrologue
               /\ {w[n - 3], w[n - 2]}
                     = {<<"engine3_leds", key_backlight_mask(product)>>,
                        <<"engine3_load", pattern>>}
               /\ w[n - 1] = <<"engine3_mode", "MCE_LED_LOAD_MODE">>
               /\ w[n] = <<"engine3_mode", "MCE_LED_RUN_MODE">>

\* C20 (amended): a Lysti level change writes the prologue, then the load
\* mode, the channel mask of the product, the new program, and the run
\* mode, the last write.
C20_LystiWriteOrder ==
    (product \in LystiProducts /\ HasOp(log, "write"))
        => WritesOf(log)
             = LystiPrologue
                 \o <<<<"engine3_mode", "MCE_LED_LOAD_MODE">>,
                      <<"engine3_leds", key_backlight_mask(product)>>,
                      <<"engine3_load", pattern>>,
                      <<"engine3_mode", "MCE_LED_RUN_MODE">>>>

\* a fade from 255 to 0 was programmed on a RM-680
C20_Witness ==
    /\ product = "RM680"
    /\ event.name = "set_lysti_backlight_brightness"
    /\ Len(WritesOf(log)) = Len(LystiPrologue) + 4
    /\ old_brightness = 0
    /\ SubSeq(pattern, 7, 8) = <<"f", "f">>
    /\ SubSeq(pattern, 11, 12) = <<"f", "f">>

\* the four writes of the N810 backend for a level and a fade-out time
N810Writes(level, fade_out) ==
    LET ft == IF level = 0 THEN fade_out ELSE 0
    IN  <<<<"MCE_KEYPAD_BACKLIGHT_FADETIME_SYS_PATH", ft>>,
          <<"MCE_KEYBOARD_BACKLIGHT_FADETIME_SYS_PATH", ft>>,
          <<"led_brightness_kb0", level>>,
          <<"led_brightness_kb1", level>>>>

\* C21: on a N810 product an event that applies a level change (the level
\* pushed is neither -1 nor the level applied last) writes the two fade
\* time files and then the two brightness files and nothing else; the fade
\* time written is 0 for a level other than 0 and the fade-out time for
\* level 0 (never the fade-in time), the brightness written is the level
\* as requested; an event that applies no level change writes nothing.
C21_N810WriteOrder ==
    [][(loaded /\ product \in N810Products)
       => IF /\ HasOp(log', "push")
             /\ key_backlight_pipe' # -1
             /\ key_backlight_pipe' # cached_brightness
          THEN /\ WritesOf(log')
                    = N810Writes(key_backlight_pipe',
                                 key_backlight_fade_out_time)
               /\ cached_brightness' = key_backlight_pipe'
          ELSE ~HasOp(log', "write")]_vars

\* a level between 0 and the default was applied on a RX-44 whose fade-in
\* time is not 0: the fade time written is 0
C21_Witness ==
    /\ product = "RX44"
    /\ key_backlight_fade_in_time # 0
    /\ Handled("key_backlight_pipe", cached_brightness)
    /\ cached_brightness \notin {0, DEFAULT_KEY_BACKLIGHT_LEVEL}
    /\ Len(WritesOf(log)) = 4
    /\ WritesOf(log)[1][2] = 0
    /\ WritesOf(log)[3][2] = cached_brightness

\* the fade time set_backlight_brightness hands to the backend
BackendFadeTime(level) ==
    IF level = 0 THEN key_backlight_fade_out_time
    ELSE key_backlight_fade_in_time

\* an event has called the backend of the product: the level pushed is
\* neither -1 nor the level applied last
BackendCalled ==
    /\ loaded
    /\ product \in LystiProducts \cup N810Products
    /\ HasOp(log', "push")
    /\ key_backlight_pipe' # -1
    /\ key_backlight_pipe' # cached_brightness

\* what a backend call leaves behind: the hardware writes and the next
\* old_brightness
Outcome(s) == <<WritesOf(s.log), s.old_brightness>>

\* a pattern an earlier call of the Lysti backend may have left
FadedPattern ==
    SubSeq(InitPattern, 1, 6) \o <<"f", "f", "0", "3", "f", "f">>
        \o SubSeq(InitPattern, 13, 16)

\* the rest of the controller state in a second run: as the daemon starts
\* with the slide closed outside USER state, or with the backlight lit
\* (display on, slide open, USER state, a fade programmed before)
TwinRests ==
    {[enabled |-> FALSE, display |-> "MCE_DISPLAY_UNDEF",
      slide |-> "COVER_CLOSED", system |-> "MCE_STATE_ACTDEAD",
      pattern |-> InitPattern],
     [enabled |-> TRUE, display |-> "MCE_DISPLAY_ON",
      slide |-> "COVER_OPEN", system |-> "MCE_STATE_USER",
      pattern |-> FadedPattern]}

\* the states of a second run that agrees with this one on the hardware
\* profile and on old_brightness: the timeout handle is any, the rest is
\* one of TwinRests.  The first run is any reachable one, so two runs that
\* agree with the same second run agree with each other.
TwinStates ==
    {[Begin EXCEPT !.cb_id = id,
                   !.timers = IF id = 0 THEN {} ELSE {id},
                   !.enabled = r.enabled,
                   !.old_display_state = r.display,
                   !.slide = r.slide,
                   !.system = r.system,
                   !.pattern = r.pattern] :
        id \in 0..MaxSourceId, r \in TwinRests}

\* C22 (as the specification states it): the hardware writes and the next
\* old_brightness of a backend call are those of the call in any second
\* run that agrees on fade time, level, product and old_brightness.
C22_BackendDeterministic ==
    [][BackendCalled
       => \A t \in TwinStates :
             Outcome(ProductBacklight(
                         t, BackendFadeTime(key_backlight_pipe'),
                         key_backlight_pipe'))
                = <<WritesOf(log'), old_brightness'>>]_vars

\* C22 (amended): the hardware writes and the next old_brightness of a
\* backend call are those of the call in any second run that agrees on
\* fade time, level, product and old_brightness and, on Lysti with
\* old_brightness 0, on whether a timeout is pending; the N810 backend
\* depends on fade time and level alone.
C22_BackendDeterministicGivenTimeout ==
    [][BackendCalled
       => \A t \in TwinStates :
             ((product \in LystiProducts /\ old_brightness = 0)
                 => ((t.cb_id = 0) <=> (key_backlight_timeout_cb_id' = 0)))
             => Outcome(ProductBacklight(
                            t, BackendFadeTime(key_backlight_pipe'),
                            key_backlight_pipe'))
                   = <<WritesOf(log'), old_brightness'>>]_vars

\* a level request was ignored by the Lysti backend: old_brightness was 0
\* and no timeout was pending
C22_Witness ==
    /\ product \in LystiProducts
    /\ \E level \in RequestLevels \ {-1, 0} :
          /\ Handled("key_backlight_pipe", level)
          /\ cached_brightness = level
    /\ key_backlight_timeout_cb_id = 0
    /\ old_brightness = 0
    /\ ~HasOp(log, "write")

\* the level the hardware writes of the trace l set (l has writes): the
\* value of the last brightness file on N810, the level the program ends
\* at (old_brightness after the call) on Lysti
LevelWritten(l, old) ==
    IF product \in N810Products THEN WritesOf(l)[Len(WritesOf(l))][2]
    ELSE old

\* C23 (as the specification states it): on a product with backlight
\* hardware cached_brightness is -1 as long as nothing has been written
\* and is the level of the latest hardware write afterwards: it changes
\* only in an event that writes that level to the hardware, no event
\* writes without setting it, and on Lysti it equals old_brightness once
\* it is set.
C23_CachedIsLastWritten ==
    /\ cached_brightness = -1
    /\ [][(loaded /\ product \in LystiProducts \cup N810Products)
            => (/\ IF HasOp(log', "write")
                   THEN cached_brightness'
                           = LevelWritten(log', old_brightness')
                   ELSE cached_brightness' = cached_brightness
                /\ (product \in LystiProducts /\ cached_brightness' # -1)
                      => cached_brightness' = old_brightness')]_vars

(***************************************************************************)
(* The module as the only writer of key_backlight_pipe: the events of Spec *)
(* without the level requests of other components.                         *)
(***************************************************************************)
NextModuleOnly ==
    \/ StreamEvent
    \/ \E a \in AlarmUiStates : AlarmUiEvent(a)
    \/ \E b \in BOOLEAN : SubmodeEvent(b)
    \/ StatusQuery
    \/ TimerExpiry

SpecModuleOnly == Init /\ [][NextModuleOnly]_vars

\* timeout pending, level channel non-zero and enabled flag agree, and on
\* Lysti old_brightness is the value of the level channel
BacklightConsistent ==
    /\ (timers # {}) <=> (key_backlight_pipe # 0)
    /\ (key_backlight_timeout_cb_id # 0) <=> (key_backlight_pipe # 0)
    /\ key_backlight_is_enabled <=> (key_backlight_pipe # 0)
    /\ product \in LystiProducts => old_brightness = key_backlight_pipe

\* the guard of the Lysti backend has dropped the request of this event:
\* the backend was called with old_brightness 0 and no timeout pending
\* (the handle does not change after the push)
LystiSuppressed ==
    /\ BackendCalled
    /\ product \in LystiProducts
    /\ old_brightness = 0
    /\ key_backlight_timeout_cb_id' = 0

\* C24 (as the specification states it): with the module as the only
\* writer of the level channel, after every event a timeout is pending
\* exactly when the level channel is non-zero and exactly when the enabled
\* flag is TRUE, on Lysti old_brightness is the level channel value, and
\* the guard of the Lysti backend drops no request of the module.
C24_ModuleOnlyNeverSuppressed ==
    /\ []BacklightConsistent
    /\ [][~LystiSuppressed]_vars

\* C24 (amended): with the module as the only writer of the level
\* channel, after every event a timeout is pending exactly when the level
\* channel is non-zero and exactly when the enabled flag is TRUE, and on
\* Lysti old_brightness is the level channel value; the guard of the Lysti
\* backend drops one kind of request of the module only, the level 0
\* Disable pushes before any level has been applied (cached_brightness is
\* -1, old_brightness is 0 already), and never a request for a non-zero
\* level.
C24_ModuleOnlyConsistent ==
    /\ []BacklightConsistent
    /\ [][LystiSuppressed
            => (/\ key_backlight_pipe' = 0
                /\ cached_brightness = -1
                /\ DisableRan(log')
                /\ old_brightness' = 0)]_vars
    /\ [][(BackendCalled /\ product \in LystiProducts
               /\ key_backlight_pipe' # 0)
            => (HasOp(log', "write")
                /\ old_brightness' = key_backlight_pipe')]_vars

\* the timeout expired on a Lysti product with the backlight lit: the
\* engine was programmed down to 0
C24_Witness ==
    /\ product \in LystiProducts
    /\ \E id \in 1..MaxSourceId : Handled("timeout", id)
    /\ HasOp(log, "write")
    /\ SubSeq(pattern, 7, 8) = <<"f", "f">>
    /\ old_brightness = 0
    /\ Disabled

\* C25 (as the specification states it): whatever level requests other
\* components have made, after a device activity event (inactive = FALSE)
\* handled with the slide open in USER state a timeout is pending, the
\* level channel is non-zero, the enabled flag is TRUE and, on Lysti, the
\* level programmed last (old_brightness) is non-zero.
C25_ActivityLightsBacklight ==
    [][(/\ loaded
        /\ DeviceInactiveEvent(FALSE)
        /\ keyboard_slide_pipe = "COVER_OPEN"
        /\ system_state_pipe = "MCE_STATE_USER")
       => (/\ key_backlight_timeout_cb_id' # 0
           /\ timers' = {key_backlight_timeout_cb_id'}
           /\ key_backlight_pipe' # 0
           /\ key_backlight_is_enabled'
           /\ product \in LystiProducts => old_brightness' # 0)]_vars

====
